---------------------------- MODULE Spec2Model ----------------------------
(***************************************************************************)
(* Model of ab_cli/utils/history.py: the redactor sanitize_sensitive_data  *)
(* (an ordered list of regular-expression substitutions) and the history   *)
(* recorder save_to_history.                                               *)
(*                                                                         *)
(* Texts are strings; SubSeq(s, i, i) is the i-th character.  Every regex  *)
(* of the source is translated into an operator <rule>At(s, i) that gives  *)
(* the match re.sub finds when it tries the pattern at position i: whether *)
(* it matches, where group 1 ends (g1) and where the match ends (end),     *)
(* both as the index of the first character after it.                      *)
(***************************************************************************)
EXTENDS Integers, Sequences, FiniteSets, TLC

VARIABLES
    text,      \* the argument of the first sanitize_sensitive_data call
    result,    \* the value returned by the latest call (text before any call)
    prev,      \* the argument of the latest call
    passes,    \* how many times sanitize_sensitive_data was applied
    textKind,  \* "str", or "None" when the argument is None (text is "" then)
    resultKind \* "str" or "None" as result is, "TypeError" when the call raised

sanVars == <<text, result, prev, passes, textKind, resultKind>>

VARIABLES
    enabled,   \* the configuration value history.enabled
    directory, \* the configuration value history.directory
    now,       \* the wall clock, in seconds
    dirExists, \* the history directory exists
    files,     \* the record files of the history directory: name -> content
    index,     \* index.json: absent, corrupt or its content
    pc,        \* where each process stands in save_to_history
    args,      \* the arguments of each process's call
    entry,     \* the history_entry each process has built
    idx,       \* the index each process has loaded
    exc,       \* the last exception raised in each process's call
    calls,     \* how many calls of save_to_history were made
    overlap,   \* some call began while another call was under way
    recorded   \* the summaries written to the index, in the order of the writes

histVars == <<enabled, directory, now, dirExists, files, index, pc, args, entry, idx, exc, calls,
              overlap, recorded>>

VARIABLES
    model,           \* the model argument of calculate_estimated_cost
    prompt_tokens,   \* its prompt_tokens argument
    response_tokens, \* its response_tokens argument
    cost,            \* the value it returned, in millionths of a dollar
    estimated        \* it has returned

costVars == <<model, prompt_tokens, response_tokens, cost, estimated>>
VARIABLES
    parsing,    \* what parse_input does in this run of the command
    executing,  \* what execute does in this run of the command
    runPc,      \* the position of CliCommand.run
    raised,     \* the exception in flight in run
    exit_code   \* the value that run returned

runVars == <<parsing, executing, runPc, raised, exit_code>>

VARIABLES
    folder0,       \* the history directory before cleanup_old_history: name -> mtime
    folder,        \* the history directory now
    keep,          \* the argument keep_last of the call
    history_files, \* the sorted list of record files of the call
    old_file,      \* the position in history_files of the next file to delete
    cleanPc,       \* the position of cleanup_old_history
    unlinkFailed   \* a deletion of the call failed

cleanVars == <<folder0, folder, keep, history_files, old_file, cleanPc, unlinkFailed>>

VARIABLES
    response_text,      \* the response passed to save_to_history
    sanitized_response, \* the response after sanitize_sensitive_data
    preview,            \* content.response.preview of the entry
    response_preview,   \* response_preview of the summary in the index
    previewPc           \* the position in the making of the preview

previewVars == <<response_text, sanitized_response, preview, response_preview, previewPc>>

vars == <<sanVars, histVars, costVars, runVars, cleanVars, previewVars>>

-----------------------------------------------------------------------------
(* Characters and the character classes the patterns use.                   *)

Ch(s, i) == SubSeq(s, i, i)

CharsOf(str) == {Ch(str, k) : k \in 1..Len(str)}

UPPERS == "ABCDEFGHIJKLMNOPQRSTUVWXYZ"
LOWERS == "abcdefghijklmnopqrstuvwxyz"
DIGITS == "0123456789"
PUNCT  == "!#$%&()*+,-./:;<=>?@[]^_{|}~"

Upper == CharsOf(UPPERS)
Lower == CharsOf(LOWERS)
Digit == CharsOf(DIGITS)
Quote == {"\"", "'"}
\* \s
Space == {" ", "\t", "\n", "\r", "\f"}
\* the characters of the modelled texts
Alphabet == Upper \cup Lower \cup Digit \cup CharsOf(PUNCT) \cup Quote \cup Space \cup {"\\"}

AlNum        == Upper \cup Lower \cup Digit
\* [\w-]
WordHyphen   == AlNum \cup {"_", "-"}
\* [a-zA-Z0-9-]
AlNumHyphen  == AlNum \cup {"-"}
\* [A-Z_]
UpperUnder   == Upper \cup {"_"}
\* [A-Z\s]
UpperSpace   == Upper \cup Space
\* \S and [^\s]
NonSpace     == Alphabet \ Space
\* [^\s...]: neither whitespace nor a quote character
NonSpaceQuote == Alphabet \ (Space \cup Quote)
\* [A-Za-z0-9\-._~+/]
BearerChars  == AlNum \cup {"-", ".", "_", "~", "+", "/"}
\* [a-zA-Z0-9+/=]
BasicChars   == AlNum \cup {"+", "/", "="}
\* [=:]
Separator    == {"=", ":"}

\* re.IGNORECASE compares letters by their lower-case form
ToLower == [c \in Alphabet |->
              IF c \in Upper
              THEN LET k == CHOOSE k \in 1..Len(UPPERS) : Ch(UPPERS, k) = c
                   IN  Ch(LOWERS, k)
              ELSE c]

\* the literal lit stands at position i of s (ic: under re.IGNORECASE)
LitAt(s, i, lit, ic) ==
    /\ i >= 1
    /\ i + Len(lit) - 1 <= Len(s)
    /\ IF ic
       THEN \A k \in 1..Len(lit) : ToLower[Ch(s, i + k - 1)] = ToLower[Ch(lit, k)]
       ELSE SubSeq(s, i, i + Len(lit) - 1) = lit

\* a greedy C*: the index after the longest run of characters of C from i
Span(s, i, C) ==
    CHOOSE j \in i..(Len(s) + 1) :
        /\ \A k \in i..(j - 1) : Ch(s, k) \in C
        /\ (j = Len(s) + 1 \/ Ch(s, j) \notin C)

\* the substring sub occurs in s
Contains(s, sub) ==
    \E k \in 1..(Len(s) - Len(sub) + 1) : SubSeq(s, k, k + Len(sub) - 1) = sub

NoMatch == [ok |-> FALSE, g1 |-> 0, end |-> 0]
Match(g, e) == [ok |-> TRUE, g1 |-> g, end |-> e]

-----------------------------------------------------------------------------
(* Pattern pieces shared by the rules.                                      *)

\* (kw\s*[=:]\s*) tried at i: the index after group 1, or 0 without a match
AssignHead(s, i, kw, ic) ==
    IF ~LitAt(s, i, kw, ic) THEN 0
    ELSE LET j == Span(s, i + Len(kw), Space)
         IN  IF j <= Len(s) /\ Ch(s, j) \in Separator
             THEN Span(s, j + 1, Space)
             ELSE 0

\* an optional quote, C{min,}, an optional quote, tried at g with group 1
\* ending at g.  C holds no quote, so giving the opening quote back never helps.
QuotedValue(s, g, C, min) ==
    LET q == IF g <= Len(s) /\ Ch(s, g) \in Quote THEN g + 1 ELSE g
        e == Span(s, q, C)
    IN  IF e - q < min THEN NoMatch
        ELSE Match(g, IF e <= Len(s) /\ Ch(s, e) \in Quote THEN e + 1 ELSE e)

\* \S+ tried at g with group 1 ending at g
NonSpaceValue(s, g) ==
    LET e == Span(s, g, NonSpace)
    IN  IF e > g THEN Match(g, e) ELSE NoMatch

\* (kw\s*[=:]\s*) followed by a quoted value of C{min,}
AssignQuoted(s, i, kw, ic, C, min) ==
    LET g == AssignHead(s, i, kw, ic)
    IN  IF g = 0 THEN NoMatch ELSE QuotedValue(s, g, C, min)

\* (kw\s*[=:]\s*)\S+
AssignNonSpace(s, i, kw, ic) ==
    LET g == AssignHead(s, i, kw, ic)
    IN  IF g = 0 THEN NoMatch ELSE NonSpaceValue(s, g)

\* {20,} of the api key, sk-, token and Basic patterns
MinSecretLen == 20

-----------------------------------------------------------------------------
(* The patterns of sanitize_sensitive_data, in list order.                  *)

\* (api[_-]?key\s*[=:]\s*)[quote]?[\w-]{20,}[quote]?
ApiKeyAt(s, i) ==
    LET kw == IF LitAt(s, i, "api_key", FALSE) THEN "api_key"
              ELSE IF LitAt(s, i, "api-key", FALSE) THEN "api-key"
              ELSE "apikey"
    IN  AssignQuoted(s, i, kw, FALSE, WordHyphen, MinSecretLen)

\* (OPENROUTER_API_KEY\s*[=:]\s*)[quote]?[\w-]+[quote]?
OpenRouterKeyAt(s, i) == AssignQuoted(s, i, "OPENROUTER_API_KEY", FALSE, WordHyphen, 1)

\* a faulty variant of the sk- pattern: (sk-[a-zA-Z0-9]{20,}), no hyphen allowed
SkKeyAt_NoHyphen(s, i) ==
    IF ~LitAt(s, i, "sk-", FALSE) THEN NoMatch
    ELSE LET e == Span(s, i + 3, AlNum)
         IN  IF e - (i + 3) >= MinSecretLen THEN Match(i, e) ELSE NoMatch

\* (sk-[a-zA-Z0-9-]{20,})
SkKeyAt(s, i) ==
    IF ~LitAt(s, i, "sk-", FALSE) THEN NoMatch
    ELSE LET e == Span(s, i + 3, AlNumHyphen)
         IN  IF e - (i + 3) >= MinSecretLen THEN Match(i, e) ELSE NoMatch

\* a faulty variant of the custom api key pattern: the key name outside
\* group 1, so that the replacement drops it
CustomApiKeyAt_NoGroup(s, i) ==
    LET r == Span(s, i, UpperUnder)
        n == Len("_API_KEY")
        m == AssignNonSpace(s, r - n, "_API_KEY", FALSE)
    IN  IF r - n >= i + 1 /\ LitAt(s, r - n, "_API_KEY", FALSE) /\ m.ok
        THEN Match(i, m.end)
        ELSE NoMatch

\* ([A-Z_]+_API_KEY\s*[=:]\s*)\S+ : the run of [A-Z_] from i must end with
\* _API_KEY, after at least one character, right before the separator
CustomApiKeyAt(s, i) ==
    LET r == Span(s, i, UpperUnder)
        n == Len("_API_KEY")
    IN  IF r - n >= i + 1 /\ LitAt(s, r - n, "_API_KEY", FALSE)
        THEN AssignNonSpace(s, r - n, "_API_KEY", FALSE)
        ELSE NoMatch

PasswordAt(s, i) == AssignQuoted(s, i, "password", TRUE, NonSpaceQuote, 1)
PasswdAt(s, i)   == AssignQuoted(s, i, "passwd", TRUE, NonSpaceQuote, 1)
PwdAt(s, i)      == AssignQuoted(s, i, "pwd", TRUE, NonSpaceQuote, 1)
SecretAt(s, i)   == AssignQuoted(s, i, "secret", TRUE, WordHyphen, 1)
TokenAt(s, i)    == AssignQuoted(s, i, "token", TRUE, WordHyphen, MinSecretLen)
AuthAt(s, i)     == AssignQuoted(s, i, "auth", TRUE, WordHyphen, 1)
OauthTokenAt(s, i)  == AssignNonSpace(s, i, "oauth_token", TRUE)
AccessTokenAt(s, i) == AssignNonSpace(s, i, "access_token", TRUE)

\* (Bearer\s+)[A-Za-z0-9\-._~+/]+=*
BearerAt(s, i) ==
    IF ~LitAt(s, i, "Bearer", FALSE) THEN NoMatch
    ELSE LET g == Span(s, i + 6, Space)
             e == Span(s, g, BearerChars)
         IN  IF g > i + 6 /\ e > g THEN Match(g, Span(s, e, {"="})) ELSE NoMatch

\* (Basic\s+)[a-zA-Z0-9+/=]{20,}
BasicAt(s, i) ==
    IF ~LitAt(s, i, "Basic", FALSE) THEN NoMatch
    ELSE LET g == Span(s, i + 5, Space)
             e == Span(s, g, BasicChars)
         IN  IF g > i + 5 /\ e - g >= MinSecretLen THEN Match(g, e) ELSE NoMatch

\* https?://[^\s]*(webhook|hooks)[^\s]* under re.IGNORECASE: the run of
\* non-space characters after :// holds webhook or hooks
WebhookAt(s, i) ==
    IF ~LitAt(s, i, "http", TRUE) THEN NoMatch
    ELSE LET p == IF LitAt(s, i + 4, "s", TRUE) THEN i + 5 ELSE i + 4
         IN  IF ~LitAt(s, p, "://", TRUE) THEN NoMatch
             ELSE LET e == Span(s, p + 3, NonSpace)
                  IN  IF \E k \in (p + 3)..(e - 1) :
                             \/ LitAt(s, k, "webhook", TRUE)
                             \/ LitAt(s, k, "hooks", TRUE)
                      THEN Match(i, e)
                      ELSE NoMatch

SetMax(S) == CHOOSE x \in S : \A y \in S : y <= x
SetMin(S) == CHOOSE x \in S : \A y \in S : x <= y

\* [A-Z\s]*PRIVATE KEY----- tried at p: the places where PRIVATE KEY----- can
\* start after a run of [A-Z\s] (the greedy star tries the longest run first)
PemLabelEnds(s, p) ==
    {j \in p..Span(s, p, UpperSpace) : LitAt(s, j, "PRIVATE KEY-----", FALSE)}

\* -----END[A-Z\s]*PRIVATE KEY----- tried at k: the index after it, or 0
PemEndAt(s, k) ==
    IF ~LitAt(s, k, "-----END", FALSE) THEN 0
    ELSE LET js == PemLabelEnds(s, k + 8)
         IN  IF js = {} THEN 0 ELSE SetMax(js) + Len("PRIVATE KEY-----")

\* a faulty variant of the private key pattern: a greedy body, which runs to
\* the last END line of the text
PrivateKeyAt_Greedy(s, i) ==
    IF ~LitAt(s, i, "-----BEGIN", FALSE) THEN NoMatch
    ELSE LET n  == Len("PRIVATE KEY-----")
             js == {j \in PemLabelEnds(s, i + 10) :
                        \E k \in (j + n)..Len(s) : PemEndAt(s, k) > 0}
         IN  IF js = {} THEN NoMatch
             ELSE LET j == SetMax(js)
                      k == SetMax({k \in (j + n)..Len(s) : PemEndAt(s, k) > 0})
                  IN  Match(i, PemEndAt(s, k))

\* -----BEGIN[A-Z\s]*PRIVATE KEY-----[\s\S]*?-----END[A-Z\s]*PRIVATE KEY-----
\* the lazy body stops at the first END line
PrivateKeyAt(s, i) ==
    IF ~LitAt(s, i, "-----BEGIN", FALSE) THEN NoMatch
    ELSE LET n  == Len("PRIVATE KEY-----")
             js == {j \in PemLabelEnds(s, i + 10) :
                        \E k \in (j + n)..Len(s) : PemEndAt(s, k) > 0}
         IN  IF js = {} THEN NoMatch
             ELSE LET j == SetMax(js)
                      k == SetMin({k \in (j + n)..Len(s) : PemEndAt(s, k) > 0})
                  IN  Match(i, PemEndAt(s, k))

GenericKeywords == {"SECRET", "PASSWORD", "TOKEN", "KEY", "CREDENTIAL"}

\* a faulty variant of the generic pattern: the keyword group optional, so
\* that any upper-case name matches
GenericSecretAt_AnyName(s, i) ==
    LET r == Span(s, i, UpperUnder)
    IN  IF r > i THEN AssignNonSpace(s, r, "", FALSE) ELSE NoMatch

\* ([A-Z_]*(SECRET|PASSWORD|TOKEN|KEY|CREDENTIAL)[A-Z_]*\s*[=:]\s*)\S+ : the run
\* of [A-Z_] from i holds a keyword and ends right before the separator
GenericSecretAt(s, i) ==
    LET r == Span(s, i, UpperUnder)
    IN  IF \E p \in i..(r - 1) : \E kw \in GenericKeywords : LitAt(s, p, kw, FALSE)
        THEN AssignNonSpace(s, r, "", FALSE)
        ELSE NoMatch

-----------------------------------------------------------------------------
(* The ordered rule list and its application.                               *)

patterns == << "api_key", "OPENROUTER_API_KEY", "sk-", "_API_KEY",
               "password", "passwd", "pwd",
               "secret", "token", "auth",
               "oauth_token", "access_token",
               "Bearer", "Basic", "webhook", "PRIVATE KEY", "generic" >>

\* what the pattern named p matches at position i of s
MatchAt(p, s, i) ==
    CASE p = "api_key"            -> ApiKeyAt(s, i)
      [] p = "OPENROUTER_API_KEY" -> OpenRouterKeyAt(s, i)
      [] p = "sk-"                -> SkKeyAt(s, i)
      [] p = "_API_KEY"           -> CustomApiKeyAt(s, i)
      [] p = "password"           -> PasswordAt(s, i)
      [] p = "passwd"             -> PasswdAt(s, i)
      [] p = "pwd"                -> PwdAt(s, i)
      [] p = "secret"             -> SecretAt(s, i)
      [] p = "token"              -> TokenAt(s, i)
      [] p = "auth"               -> AuthAt(s, i)
      [] p = "oauth_token"        -> OauthTokenAt(s, i)
      [] p = "access_token"       -> AccessTokenAt(s, i)
      [] p = "Bearer"             -> BearerAt(s, i)
      [] p = "Basic"              -> BasicAt(s, i)
      [] p = "webhook"            -> WebhookAt(s, i)
      [] p = "PRIVATE KEY"        -> PrivateKeyAt(s, i)
      [] p = "generic"            -> GenericSecretAt(s, i)

\* the replacement template of p after its group 1 (where it has one)
Replacement(p) ==
    CASE p = "sk-"         -> "[REDACTED_API_KEY]"
      [] p = "webhook"     -> "[REDACTED_WEBHOOK_URL]"
      [] p = "PRIVATE KEY" -> "[REDACTED_PRIVATE_KEY]"
      [] OTHER             -> "[REDACTED]"

\* re.sub(pattern, replacement, s) from position i on: the leftmost match is
\* replaced (group 1 kept) and the scan goes on after it
RECURSIVE ReSubFrom(_, _, _)
ReSubFrom(p, s, i) ==
    LET found == {j \in i..Len(s) : MatchAt(p, s, j).ok}
    IN  IF found = {} THEN SubSeq(s, i, Len(s))
        ELSE LET j == SetMin(found)
                 m == MatchAt(p, s, j)
             IN  SubSeq(s, i, m.g1 - 1) \o Replacement(p) \o ReSubFrom(p, s, m.end)

RECURSIVE ApplyPatterns(_, _)
ApplyPatterns(s, n) ==
    IF n > Len(patterns) THEN s
    ELSE ApplyPatterns(ReSubFrom(patterns[n], s, 1), n + 1)

\* a faulty variant of the guard: only the empty string is passed over
Falsy_EmptyOnly(none, t) == ~none /\ t = ""
\* not text: the argument is None (none) or the empty string
Falsy(none, t) == none \/ t = ""

\* the value returned for a string argument t
sanitize_sensitive_data(t) ==
    IF Falsy(FALSE, t) THEN t ELSE ApplyPatterns(t, 1)

-----------------------------------------------------------------------------
(* The texts the redactor is applied to: one family per recognized shape.   *)

RECURSIVE LowerStr(_)
LowerStr(s) == IF s = "" THEN "" ELSE ToLower[Ch(s, 1)] \o LowerStr(SubSeq(s, 2, Len(s)))

\* s holds sub, letter case ignored
ContainsCI(s, sub) == Contains(LowerStr(s), LowerStr(sub))

RECURSIVE JoinWith(_, _)
JoinWith(seq, sep) ==
    IF Len(seq) = 0 THEN ""
    ELSE IF Len(seq) = 1 THEN seq[1]
    ELSE seq[1] \o sep \o JoinWith(Tail(seq), sep)

SeqsUpTo(S, n) == UNION {[1..k -> S] : k \in 1..n}

Placeholders == {"[REDACTED]", "[REDACTED_API_KEY]", "[REDACTED_WEBHOOK_URL]",
                 "[REDACTED_PRIVATE_KEY]"}

\* keyword assignments: every keyword in upper, lower and mixed case
Keywords == {"API_KEY", "SECRET", "PASSWORD", "PASSWD", "PWD", "TOKEN",
             "CREDENTIAL", "AUTH", "OAUTH_TOKEN", "ACCESS_TOKEN"}
CaseForms(K) == {K, LowerStr(K), Ch(K, 1) \o LowerStr(SubSeq(K, 2, Len(K)))}
KeywordForms == UNION {CaseForms(K) : K \in Keywords}
AssignSeps   == {"=", ": "}
AssignValues == {"v", "hunter2", "a.b", "abcdefghijklmnopqrstuvwx"}
AssignInputs == {K \o sp \o v : K \in KeywordForms, sp \in AssignSeps, v \in AssignValues}

\* values in quotes with a quote inside
QuotedInputs == {"password=\"abc\"def\"", "passwd='it's'", "PWD: \"a\"b"}

\* NAME_API_KEY assignments
ApiKeyNames  == {"STRIPE", "GITHUB", "X", "OPENROUTER", "MY_APP", "_"}
SkLiterals   == {"sk-proj-abcdefghijklmnopqrstuvwxyz", "sk-0123456789abcdefghIJ"}
ApiKeyValues == {"sk_live_xyz789", "a.b", "\"quoted-value\"", "p@ss:w0rd"} \cup SkLiterals
ApiKeyInputs == {n \o "_API_KEY" \o sp \o v :
                    n \in ApiKeyNames, sp \in AssignSeps, v \in ApiKeyValues}

\* sk- literals in prose, as an assigned value and after Bearer
SkContexts == {[pre |-> "", post |-> "", assigned |-> FALSE],
               [pre |-> "Using API key: ", post |-> " from now on", assigned |-> FALSE],
               [pre |-> "api_key=", post |-> "", assigned |-> TRUE],
               [pre |-> "OPENROUTER_API_KEY=", post |-> "", assigned |-> TRUE],
               [pre |-> "Bearer ", post |-> "", assigned |-> FALSE],
               [pre |-> "Header: Bearer ", post |-> "", assigned |-> FALSE]}
SkInputs == {c.pre \o k \o c.post : c \in SkContexts, k \in SkLiterals}

\* authorization values
AuthSchemes  == {"Bearer", "Basic"}
AuthPrefixes == {"", "Authorization: "}
AuthTokens   == {"abc", "eyJhbGciOiJIUzI1NiJ9", "a:b", "u$er",
                 "dXNlcm5hbWU6cGFzc3dvcmQxMjM0NTY3ODk="}
AuthInputs == {pf \o sc \o " " \o t : pf \in AuthPrefixes, sc \in AuthSchemes, t \in AuthTokens}

\* webhook URLs alone, in prose, as an assigned value and after Bearer
WebhookUrls == {"https://hooks.slack.com/services/T00/B00/XXX",
                "http://example.com/webhook/abc123",
                "HTTPS://Discord.com/api/WebHooks/123/abcdef"}
UrlPrefixes == {"", "Post to ", "secret=", "auth: ", "token=", "Bearer "}
UrlInputs == {pf \o u : pf \in UrlPrefixes, u \in WebhookUrls}

\* PEM private-key blocks
MaxBlocks    == 2
MaxBodyLines == 2
PemLabels    == <<"RSA ", "EC ", "", "OPENSSH ", "ENCRYPTED ">>
PemBodyLines == <<"MIIEpAIBAAKCAQEA0Z3VS5JJcds3xfn/ygWyF8PbnGy",
                  "YmIxMzU2NzE1MzY1Njg5MDEyMzQ1Njc4OTAxMjM0KEY=",
                  "b3BlbnNzaC1rZXktdjEAAAAABG5vbmU=">>
PemBetween   == "\nand then\n"
\* the block with label number a and the first n body lines
PemBlock(a, n) ==
    LET lab == PemLabels[((a - 1) % Len(PemLabels)) + 1]
    IN  "-----BEGIN " \o lab \o "PRIVATE KEY-----\n"
        \o JoinWith([k \in 1..n |-> PemBodyLines[((k - 1) % Len(PemBodyLines)) + 1] \o "\n"], "")
        \o "-----END " \o lab \o "PRIVATE KEY-----"
\* k blocks: block j has label a + j - 1 and (n + j - 1) mod (MaxBodyLines + 1) lines
PemText(k, a, n) ==
    JoinWith([j \in 1..k |-> PemBlock(a + j - 1, (n + j - 1) % (MaxBodyLines + 1))],
             PemBetween)
PemParams == (1..MaxBlocks) \X (1..Len(PemLabels)) \X (0..MaxBodyLines)
PemInputs == {PemText(q[1], q[2], q[3]) : q \in PemParams}

\* pairs of secrets of recognized shapes, each with the payloads it carries
Secrets == {[txt |-> "password=hunter2", pay |-> {"hunter2"}],
            [txt |-> "SECRET=", pay |-> {}],
            [txt |-> "DB_TOKEN=tok123", pay |-> {"tok123"}],
            [txt |-> "sk-proj-abcdefghijklmnopqrstuvwxyz",
             pay |-> {"sk-proj-abcdefghijklmnopqrstuvwxyz"}],
            [txt |-> "Bearer eyJhbGci", pay |-> {"eyJhbGci"}],
            [txt |-> "https://hooks.slack.com/T00", pay |-> {"hooks.slack.com", "T00"}],
            [txt |-> PemBlock(1, 1), pay |-> {PemBodyLines[1]}]}
SecretSeps == {" ", "\n"}
SecretPairs == {a.txt \o sp \o b.txt : a \in Secrets, b \in Secrets, sp \in SecretSeps}

\* KEY=value lines
MaxLines == 2
ConfigLines == {[key |-> "DEBUG", val |-> "true"],
                [key |-> "PORT", val |-> "8080"],
                [key |-> "LOG_LEVEL", val |-> "info"],
                [key |-> "API_URL", val |-> "https://api.example.com"],
                [key |-> "PRIMARY_KEY", val |-> "5"],
                [key |-> "MONKEY", val |-> "1"],
                [key |-> "DB_PASSWORD", val |-> "hunter2"]}
LineText(l) == l.key \o "=" \o l.val
ConfigTexts == SeqsUpTo(ConfigLines, MaxLines)
ConfigText(ls) == JoinWith([k \in 1..Len(ls) |-> LineText(ls[k])], "\n")
ConfigInputs == {ConfigText(ls) : ls \in ConfigTexts}

Inputs == AssignInputs \cup QuotedInputs \cup ApiKeyInputs \cup SkInputs \cup AuthInputs
          \cup UrlInputs \cup PemInputs \cup SecretPairs \cup ConfigInputs

-----------------------------------------------------------------------------
(* calculate_estimated_cost.  A token count is an integer, the string N/A   *)
(* or missing (None); money is counted in millionths of a dollar, the six   *)
(* decimals the function rounds to.                                         *)

IntVal(n) == [kind |-> "int", n |-> n]
NA      == [kind |-> "N/A", n |-> 0]
Missing == [kind |-> "missing", n |-> 0]
\* None, and a string, where an integer may stand
NoCode  == [kind |-> "None", n |-> 0]
StrCode == [kind |-> "str", n |-> 0]
\* what a step does: it returns value (class "none") or raises class(value)
Outcome(c, v) == [class |-> c, value |-> v]
NoOutcome == Outcome("none", NoCode)
\* isinstance(v, int)
IsInt(v) == v.kind = "int"

\* the price table in its order; prices per million tokens, in thousandths
\* of a dollar (2.50 is 2500, 0.075 is 75)
pricing == << [key |-> "gpt-4o",           prompt |-> 2500,  response |-> 10000],
              [key |-> "gpt-4o-mini",      prompt |-> 150,   response |-> 600],
              [key |-> "gpt-4-turbo",      prompt |-> 10000, response |-> 30000],
              [key |-> "gpt-4",            prompt |-> 30000, response |-> 60000],
              [key |-> "gpt-3.5-turbo",    prompt |-> 500,   response |-> 1500],
              [key |-> "gemini-1.5-pro",   prompt |-> 3500,  response |-> 10500],
              [key |-> "gemini-1.5-flash", prompt |-> 75,    response |-> 300],
              [key |-> "gemini-pro",       prompt |-> 500,   response |-> 1500] >>

\* a faulty variant of the lookup: the last matching key wins
PriceIndex_LastMatch(m) ==
    LET hits == {k \in 1..Len(pricing) : Contains(LowerStr(m), pricing[k].key)}
    IN  IF hits = {} THEN 0 ELSE SetMax(hits)
\* for model_key in pricing: the first key held by model.lower(), 0 if none
PriceIndex(m) ==
    LET hits == {k \in 1..Len(pricing) : Contains(LowerStr(m), pricing[k].key)}
    IN  IF hits = {} THEN 0 ELSE SetMin(hits)

\* round(x, 6) of x = w + n / d millionths: to the nearest, a tie to the
\* even one
RoundHalfEven(w, n, d) ==
    LET q == w + (n \div d)
        r == n % d
    IN  IF 2 * r < d THEN q
        ELSE IF 2 * r > d THEN q + 1
        ELSE IF q % 2 = 0 THEN q ELSE q + 1

\* tokens / 1e6 * price, summed and rounded; the thousands of each token
\* count are multiplied apart from the rest, which keeps the products small
calculate_estimated_cost(m, pt, rt) ==
    IF ~IsInt(pt) \/ ~IsInt(rt) THEN 0
    ELSE LET k == PriceIndex(m)
         IN  IF k = 0 THEN 0
             ELSE LET pp == pricing[k].prompt
                      rp == pricing[k].response
                  IN  RoundHalfEven((pt.n \div 1000) * pp + (rt.n \div 1000) * rp,
                                    (pt.n % 1000) * pp + (rt.n % 1000) * rp,
                                    1000)

-----------------------------------------------------------------------------
(* The history recorder: save_to_history and update_history_index, one      *)
(* action per file-system step, run by processes that share one store.      *)

Procs == {"A", "B"}
\* the calls of save_to_history made in all, and the seconds the clock runs
MaxCalls == 2
MaxTime  == 1
\* the retention limit of the history directory (100 by default), scaled to
\* the number of calls
keep_last == 1

\* Python's exception classes and their base classes
BaseClass == [OSError            |-> "Exception",
              FileNotFoundError  |-> "OSError",
              KeyboardInterrupt  |-> "BaseException",
              SystemExit         |-> "BaseException",
              GeneratorExit      |-> "BaseException",
              ValueError         |-> "Exception",
              JSONDecodeError    |-> "ValueError",
              UnicodeDecodeError |-> "ValueError",
              AttributeError     |-> "Exception",
              TypeError          |-> "Exception",
              Exception          |-> "BaseException"]
RECURSIVE IsSubclass(_, _)
IsSubclass(e, c) ==
    \/ e = c
    \/ e \in DOMAIN BaseClass /\ IsSubclass(BaseClass[e], c)

\* a faulty variant of the except clause of save_to_history: except OSError
SaveHandlerClass_OSError == "OSError"
\* the class named by the except clause of save_to_history
SaveHandlerClass == "Exception"
\* the class named by the except clause of update_history_index
IndexHandlerClass == "Exception"

\* what the steps raise when they fail
ConfigErrors == {"UnicodeDecodeError"}
MkdirErrors  == {"OSError"}
WriteErrors  == {"OSError"}
IndexErrors  == {"OSError"}

\* the call results: model and token counts as the provider reported them
CallResults == {[model |-> "gpt-4o-mini", prompt_tokens |-> IntVal(100),
                 response_tokens |-> IntVal(50)],
                [model |-> "gpt-4", prompt_tokens |-> Missing,
                 response_tokens |-> IntVal(50)]}
NoResult == [model |-> "", prompt_tokens |-> Missing, response_tokens |-> Missing]

\* the prompts of the calls; valid = FALSE is an argument of the wrong type
\* (full_prompt None), which raises AttributeError at full_prompt.encode
Prompts == {"Explain this function", "My password=hunter2 fails, why?"}

\* the number of characters of the response kept as its preview
PreviewLen == 500

RECURSIVE Repeat(_, _)
\* the text s repeated n times
Repeat(s, n) == IF n = 0 THEN "" ELSE s \o Repeat(s, n - 1)

\* the responses of the calls, both shorter than the preview: one of two
\* lines with a password, one of one line
ShortResponse == "Use password=hunter2 in .env\nthen retry"
OtherResponse == "It reads the file and returns its lines."
Responses     == {ShortResponse, OtherResponse}

CallArgs == {[full_prompt   |-> a.full_prompt,
              response_text |-> IF a.result.model = "gpt-4" THEN OtherResponse
                                ELSE ShortResponse,
              valid         |-> a.valid,
              result        |-> a.result] :
             a \in {b \in [full_prompt : Prompts, valid : BOOLEAN, result : CallResults] :
                \/ b.valid /\ b.full_prompt = "Explain this function"
                \/ b.result.model = "gpt-4o-mini" /\ (b.valid <=> b.full_prompt # "Explain this function")}}
NoArgs   == [full_prompt |-> "", response_text |-> "", valid |-> TRUE, result |-> NoResult]

\* sanitize_sensitive_data of the prompts and of the responses
Sanitized == [p \in Prompts \cup Responses |-> sanitize_sensitive_data(p)]

\* hashlib.md5(s.encode()).hexdigest()[:8] of the prompts and of their
\* sanitized forms
md5_8 == [s \in Prompts \cup {Sanitized[p] : p \in Prompts} |->
            CASE s = "Explain this function"              -> "ebebd4b1"
              [] s = "My password=hunter2 fails, why?"    -> "bf68c3d8"
              [] s = "My password=[REDACTED] fails, why?" -> "8dc90e6e"]

\* prompt_hash: the short hash of the prompt as it was passed in
prompt_hash == [p \in Prompts |-> md5_8[p]]

\* a faulty variant of the session id: the hash of the sanitized prompt
SessionId_OfSanitized(a, t) == <<t, md5_8[Sanitized[a.full_prompt]]>>
\* session_id: the timestamp string joined with the short hash
SessionId(a, t) == <<t, prompt_hash[a.full_prompt]>>

\* len(s.split()): the number of words of the text s
WordCount(s) ==
    Cardinality({i \in 1..Len(s) :
                    /\ SubSeq(s, i, i) \notin {" ", "\n"}
                    /\ (i = 1 \/ SubSeq(s, i - 1, i - 1) \in {" ", "\n"})})
\* s.count("\n") + 1: the number of lines of the text s
LineCount(s) == Cardinality({i \in 1..Len(s) : SubSeq(s, i, i) = "\n"}) + 1

\* a faulty variant of the preview: the first characters alone
Preview_Cut(r) == IF Len(r) > PreviewLen THEN SubSeq(r, 1, PreviewLen) ELSE r
\* the preview of the response r: r[:500] + "..." when r is longer than 500
Preview(r) == IF Len(r) > PreviewLen THEN SubSeq(r, 1, PreviewLen) \o "..." ELSE r

\* result.get(key, 'N/A') and result.get(key, 0)
OrNA(v)   == IF v.kind = "missing" THEN NA ELSE v
OrZero(v) == IF v.kind = "missing" THEN IntVal(0) ELSE v

\* a faulty variant of total_tokens: a missing count is taken as 0
TotalTokens_MissingAsZero(r) ==
    IF IsInt(OrZero(r.prompt_tokens)) /\ IsInt(OrZero(r.response_tokens))
    THEN IntVal(OrZero(r.prompt_tokens).n + OrZero(r.response_tokens).n)
    ELSE NA
\* total_tokens: the sum when both counts are integers, else N/A
TotalTokens(r) ==
    IF IsInt(r.prompt_tokens) /\ IsInt(r.response_tokens)
    THEN IntVal(r.prompt_tokens.n + r.response_tokens.n)
    ELSE NA

NoEntry == [session_id |-> <<0, "">>, prompt |-> "", response |-> "", preview |-> "",
            prompt_chars |-> 0, prompt_words |-> 0, response_chars |-> 0,
            response_words |-> 0, response_lines |-> 0, model |-> "",
            prompt_tokens |-> NA, response_tokens |-> NA, total_tokens |-> NA,
            estimated_cost_usd |-> 0]
\* the content and the statistics of the entry, from the prompt p and the
\* response r that are stored
Content(p, r) ==
    [prompt         |-> p,
     prompt_chars   |-> Len(p),
     prompt_words   |-> WordCount(p),
     response       |-> r,
     response_chars |-> Len(r),
     response_words |-> WordCount(r),
     preview        |-> Preview(r),
     response_lines |-> LineCount(r)]
\* a faulty variant of the entry: the texts are stored as they were passed
StoredTexts_Raw(a) == Content(a.full_prompt, a.response_text)
\* the texts of the entry: sanitized first, then measured and stored
StoredTexts(a) == Content(Sanitized[a.full_prompt], Sanitized[a.response_text])
\* the history_entry built at time t from the arguments a
HistoryEntry(a, t) ==
    StoredTexts(a) @@
    [session_id         |-> SessionId(a, t),
     model              |-> a.result.model,
     prompt_tokens      |-> OrNA(a.result.prompt_tokens),
     response_tokens    |-> OrNA(a.result.response_tokens),
     total_tokens       |-> TotalTokens(a.result),
     estimated_cost_usd |-> calculate_estimated_cost(a.result.model,
                                                     OrZero(a.result.prompt_tokens),
                                                     OrZero(a.result.response_tokens))]

\* the home directory of the user
Home == "/home/dev"
\* AB_HISTORY_DIR, the default of history.directory
AB_HISTORY_DIR == Home \o "/.ab/history"
\* os.path.expanduser: a leading ~ stands for the home directory
expanduser(d) ==
    IF Len(d) >= 1 /\ SubSeq(d, 1, 1) = "~" /\ (Len(d) = 1 \/ SubSeq(d, 2, 2) = "/")
    THEN Home \o SubSeq(d, 2, Len(d))
    ELSE d
\* AbConfig.get_history_dir for the configured history.directory d
get_history_dir(d) == expanduser(d)
\* history_dir of save_to_history, the directory that holds the record
\* files and index.json: Path.home() / ".ab" / "history"
history_dir == Home \o "/.ab" \o "/history"
\* the history sections of the configuration file: history switched off
\* with the default directory, or on with a directory of the user's own
Configs == {[enabled |-> FALSE, directory |-> AB_HISTORY_DIR],
            [enabled |-> TRUE,  directory |-> "~/ai-history"]}

\* index.json: state is "absent" (no file), "corrupt" (not valid JSON) or "ok"
EmptyIndex   == [state |-> "ok", total_interactions |-> 0, total_tokens_used |-> 0,
                 total_estimated_cost |-> 0, interactions |-> <<>>]
AbsentIndex  == [EmptyIndex EXCEPT !.state = "absent"]
CorruptIndex == [EmptyIndex EXCEPT !.state = "corrupt"]
\* the summary of the entry e
Summary(e) == [session_id |-> e.session_id, tokens |-> e.total_tokens,
               cost |-> e.estimated_cost_usd, response_preview |-> e.preview]
\* a faulty variant of the update: the summary is appended and not counted
WithSummary_Appended(ix, e) ==
    [ix EXCEPT !.state = "ok", !.interactions = Append(ix.interactions, Summary(e))]
\* a faulty variant of the update: the cost of the entry is not added
WithSummary_CostUncounted(ix, e) ==
    LET list == <<Summary(e)>> \o ix.interactions
    IN  [state                |-> "ok",
         total_interactions   |-> Len(list),
         total_tokens_used    |-> ix.total_tokens_used
                                  + (IF IsInt(e.total_tokens) THEN e.total_tokens.n ELSE 0),
         total_estimated_cost |-> ix.total_estimated_cost,
         interactions         |-> list]
\* the index with the summary of e inserted first and the totals updated
WithSummary(ix, e) ==
    LET list == <<Summary(e)>> \o ix.interactions
    IN  [state                |-> "ok",
         total_interactions   |-> Len(list),
         total_tokens_used    |-> ix.total_tokens_used
                                  + (IF IsInt(e.total_tokens) THEN e.total_tokens.n ELSE 0),
         total_estimated_cost |-> ix.total_estimated_cost + e.estimated_cost_usd,
         interactions         |-> list]

\* sanitize_sensitive_data is not being explored on its own
SanIdle ==
    /\ text = "" /\ result = "" /\ prev = "" /\ passes = 0
    /\ textKind = "str" /\ resultKind = "str"

\* CliCommand.run is not being explored
RunIdle ==
    /\ parsing = NoOutcome /\ executing = NoOutcome
    /\ runPc = "idle" /\ raised = NoOutcome /\ exit_code = NoCode

\* cleanup_old_history is not being explored
CleanIdle ==
    /\ folder0 = <<>> /\ folder = <<>> /\ keep = 0
    /\ history_files = <<>> /\ old_file = 0
    /\ cleanPc = "idle" /\ unlinkFailed = FALSE

\* the preview is not being explored on its own
PreviewIdle ==
    /\ response_text = "" /\ sanitized_response = "" /\ preview = ""
    /\ response_preview = "" /\ previewPc = "idle"

\* calculate_estimated_cost is not being explored on its own
CostIdle ==
    /\ model = "" /\ prompt_tokens = Missing /\ response_tokens = Missing
    /\ cost = 0 /\ estimated = FALSE

HistInit ==
    /\ \E c \in Configs : enabled = c.enabled /\ directory = c.directory
    /\ now = 0
    /\ dirExists = FALSE
    /\ files = <<>>
    /\ index = AbsentIndex
    /\ pc = [p \in Procs |-> "idle"]
    /\ args = [p \in Procs |-> NoArgs]
    /\ entry = [p \in Procs |-> NoEntry]
    /\ idx = [p \in Procs |-> EmptyIndex]
    /\ exc = [p \in Procs |-> "none"]
    /\ calls = 0
    /\ overlap = FALSE
    /\ recorded = <<>>

\* a second passes; the clock matters only to a call that is about to read it
Tick ==
    /\ now < MaxTime
    /\ \E p \in Procs : pc[p] = "build"
    /\ now' = now + 1
    /\ UNCHANGED <<sanVars, costVars, previewVars, runVars, cleanVars, enabled, directory, dirExists, files, index, pc, args, entry, idx, exc, calls, overlap, recorded>>

\* the user edits the configuration file: the history section is replaced;
\* the values matter only to a call that is about to read the configuration
Configure ==
    /\ \E p \in Procs : pc[p] = "config"
    /\ \E c \in Configs :
          /\ <<c.enabled, c.directory>> # <<enabled, directory>>
          /\ enabled' = c.enabled
          /\ directory' = c.directory
    /\ UNCHANGED <<sanVars, costVars, previewVars, runVars, cleanVars, now, dirExists, files, index, pc, args, entry, idx, exc,
                   calls, overlap, recorded>>

\* the process p is at position at and goes to position to
Goto(p, at, to) == pc[p] = at /\ pc' = [pc EXCEPT ![p] = to]

\* the step of p at position at raises e
Raise(p, at, e, handler) ==
    /\ Goto(p, at, handler)
    /\ exc' = [exc EXCEPT ![p] = e]

\* the caller calls save_to_history
Call(p) ==
    /\ calls < MaxCalls
    /\ calls' = calls + 1
    /\ Goto(p, "idle", "config")
    /\ \E a \in CallArgs : args' = [args EXCEPT ![p] = a]
    /\ overlap' = (overlap \/ \E q \in Procs \ {p} : pc[q] \notin {"idle", "returned"})
    /\ UNCHANGED <<sanVars, costVars, previewVars, runVars, cleanVars, enabled, directory, now, dirExists, files, index, entry, idx, exc,
                   recorded>>

\* a faulty variant of the configuration check: the flag is not looked at
ReadConfig_Ignored(p) ==
    /\ Goto(p, "config", "mkdir")
    /\ UNCHANGED <<sanVars, costVars, previewVars, runVars, cleanVars, enabled, directory, now, dirExists, files, index, args, entry, idx, exc,
                   calls, overlap, recorded>>

\* config.get_with_default: return at once when history is disabled
ReadConfig(p) ==
    /\ Goto(p, "config", IF enabled THEN "mkdir" ELSE "returned")
    /\ UNCHANGED <<sanVars, costVars, previewVars, runVars, cleanVars, enabled, directory, now, dirExists, files, index, args, entry, idx, exc, calls, overlap, recorded>>

ReadConfigFails(p) ==
    /\ \E e \in ConfigErrors : Raise(p, "config", e, "except")
    /\ UNCHANGED <<sanVars, costVars, previewVars, runVars, cleanVars, enabled, directory, now, dirExists, files, index, args, entry, idx, calls, overlap, recorded>>

\* history_dir.mkdir(parents=True, exist_ok=True)
MakeDir(p) ==
    /\ Goto(p, "mkdir", "build")
    /\ dirExists' = TRUE
    /\ UNCHANGED <<sanVars, costVars, previewVars, runVars, cleanVars, enabled, directory, now, files, index, args, entry, idx, exc, calls, overlap, recorded>>

MakeDirFails(p) ==
    /\ \E e \in MkdirErrors : Raise(p, "mkdir", e, "except")
    /\ UNCHANGED <<sanVars, costVars, previewVars, runVars, cleanVars, enabled, directory, now, dirExists, files, index, args, entry, idx, calls, overlap, recorded>>

\* the timestamp, the hash and the entry
BuildEntry(p) ==
    /\ args[p].valid
    /\ Goto(p, "build", "write")
    /\ entry' = [entry EXCEPT ![p] = HistoryEntry(args[p], now)]
    /\ UNCHANGED <<sanVars, costVars, previewVars, runVars, cleanVars, enabled, directory, now, dirExists, files, index, args, idx, exc, calls, overlap, recorded>>

BuildEntryFails(p) ==
    /\ ~args[p].valid
    /\ Raise(p, "build", "AttributeError", "except")
    /\ UNCHANGED <<sanVars, costVars, previewVars, runVars, cleanVars, enabled, directory, now, dirExists, files, index, args, entry, idx, calls, overlap, recorded>>

\* a faulty variant of the file write: a file that exists is left as it is
WriteFile_KeepsOld(fs, name, content) == fs @@ (name :> content)
\* open(name, "w") and json.dump: the file is created or replaced
WriteFile(fs, name, content) == (name :> content) @@ fs

\* open(history_file, "w") and json.dump
WriteRecord(p) ==
    /\ Goto(p, "write", "index_read")
    /\ files' = WriteFile(files, entry[p].session_id, entry[p])
    /\ UNCHANGED <<sanVars, costVars, previewVars, runVars, cleanVars, enabled, directory, now, dirExists, index, args, entry, idx, exc, calls, overlap, recorded>>

\* a faulty variant of the failing write: the error is lost and the call
\* goes on to the index
WriteRecordFails_Swallowed(p) ==
    /\ Goto(p, "write", "index_read")
    /\ UNCHANGED <<sanVars, costVars, previewVars, runVars, cleanVars, enabled, directory, now, dirExists, files, index, args, entry, idx, exc, calls, overlap, recorded>>

\* the write fails: before the file is opened, or after it was truncated
WriteRecordFails(p) ==
    /\ \E e \in WriteErrors : Raise(p, "write", e, "except")
    /\ \/ UNCHANGED files
       \/ files' = (entry[p].session_id :> NoEntry) @@ files
    /\ UNCHANGED <<sanVars, costVars, previewVars, runVars, cleanVars, enabled, directory, now, dirExists, index, args, entry, idx, calls, overlap, recorded>>

\* a faulty variant of the load: the index on disk is never read
LoadIndex_AlwaysNew(ix) == EmptyIndex
\* json.load of index.json when the file exists, else a new index
LoadIndex(ix) == IF ix.state = "absent" THEN EmptyIndex ELSE ix

\* a faulty variant of the update: it starts from the index now on disk
IndexBase_Fresh(p) == index
\* the index that the update of p changes and writes: the one p loaded
IndexBase(p) == idx[p]

\* update_history_index: load index.json or start an empty index; a read
\* that fails goes to the function's own except clause
IndexRead(p) ==
    /\ index.state # "corrupt"
    /\ Goto(p, "index_read", "index_write")
    /\ idx' = [idx EXCEPT ![p] = LoadIndex(index)]
    /\ UNCHANGED <<sanVars, costVars, previewVars, runVars, cleanVars, enabled, directory, now, dirExists, files, index, args, entry, exc, calls, overlap, recorded>>

IndexReadFails(p) ==
    /\ \E e \in IF index.state = "corrupt" THEN {"JSONDecodeError"} ELSE IndexErrors :
            Raise(p, "index_read", e, "index_except")
    /\ UNCHANGED <<sanVars, costVars, previewVars, runVars, cleanVars, enabled, directory, now, dirExists, files, index, args, entry, idx, calls, overlap, recorded>>

\* insert the summary first, recount, and write index.json
IndexWrite(p) ==
    /\ Goto(p, "index_write", "saved")
    /\ index' = WithSummary(IndexBase(p), entry[p])
    /\ recorded' = Append(recorded, Summary(entry[p]))
    /\ UNCHANGED <<sanVars, costVars, previewVars, runVars, cleanVars, enabled, directory, now, dirExists, files, args, entry, idx, exc, calls,
                   overlap>>

\* the write fails: before the file is opened, or after it was truncated
IndexWriteFails(p) ==
    /\ \E e \in IndexErrors : Raise(p, "index_write", e, "index_except")
    /\ \/ UNCHANGED index
       \/ index' = CorruptIndex
    /\ UNCHANGED <<sanVars, costVars, previewVars, runVars, cleanVars, enabled, directory, now, dirExists, files, args, entry, idx, calls, overlap, recorded>>

\* except Exception of update_history_index: warn and return to save_to_history
IndexExcept(p) ==
    /\ Goto(p, "index_except",
            IF IsSubclass(exc[p], IndexHandlerClass) THEN "saved" ELSE "except")
    /\ UNCHANGED <<sanVars, costVars, previewVars, runVars, cleanVars, enabled, directory, now, dirExists, files, index, args, entry, idx, exc, calls, overlap, recorded>>

\* pp("History saved: ...") and the end of the try block
PrintSaved(p) ==
    /\ Goto(p, "saved", "returned")
    /\ UNCHANGED <<sanVars, costVars, previewVars, runVars, cleanVars, enabled, directory, now, dirExists, files, index, args, entry, idx, exc, calls, overlap, recorded>>

\* except Exception of save_to_history: warn and return; an exception of
\* another class goes on to the caller
SaveExcept(p) ==
    /\ Goto(p, "except",
            IF IsSubclass(exc[p], SaveHandlerClass) THEN "returned" ELSE "raised")
    /\ UNCHANGED <<sanVars, costVars, previewVars, runVars, cleanVars, enabled, directory, now, dirExists, files, index, args, entry, idx, exc, calls, overlap, recorded>>

\* the caller goes on after the call; the locals of the call are gone
Return(p) ==
    /\ Goto(p, "returned", "idle")
    /\ args' = [args EXCEPT ![p] = NoArgs]
    /\ entry' = [entry EXCEPT ![p] = NoEntry]
    /\ idx' = [idx EXCEPT ![p] = EmptyIndex]
    /\ exc' = [exc EXCEPT ![p] = "none"]
    /\ UNCHANGED <<sanVars, costVars, previewVars, runVars, cleanVars, enabled, directory, now, dirExists, files, index, calls, overlap, recorded>>

Next ==
    \/ Tick
    \/ Configure
    \/ \E p \in Procs :
          \/ Call(p)
          \/ ReadConfig(p)      \/ ReadConfigFails(p)
          \/ MakeDir(p)         \/ MakeDirFails(p)
          \/ BuildEntry(p)      \/ BuildEntryFails(p)
          \/ WriteRecord(p)     \/ WriteRecordFails(p)
          \/ IndexRead(p)       \/ IndexReadFails(p)
          \/ IndexWrite(p)      \/ IndexWriteFails(p)
          \/ IndexExcept(p)
          \/ PrintSaved(p)
          \/ SaveExcept(p)
          \/ Return(p)

\* the recorder runs; the redactor's own state machine stands still
Init ==
    /\ HistInit
    /\ PreviewIdle
    /\ SanIdle
    /\ RunIdle
    /\ CleanIdle
    /\ CostIdle

Spec == Init /\ [][Next]_vars

-----------------------------------------------------------------------------
(* The redactor as a state machine: a text is chosen and sanitized, and the *)
(* result is sanitized again.  The recorder stands still.                   *)

MaxPasses == 2

SanInit ==
    /\ \/ text \in Inputs \cup {""} /\ textKind = "str"
       \/ text = "" /\ textKind = "None"
    /\ result = text
    /\ resultKind = textKind
    /\ prev = text
    /\ passes = 0
    /\ RunIdle
    /\ CleanIdle
    /\ HistInit
    /\ PreviewIdle
    /\ enabled = TRUE
    /\ CostIdle

\* one call of sanitize_sensitive_data on the value that result holds; None
\* that gets past the guard reaches re.sub, which raises TypeError
Sanitize ==
    /\ passes < MaxPasses
    /\ resultKind # "TypeError"
    /\ prev' = result
    /\ IF Falsy(resultKind = "None", result)
       THEN result' = result /\ resultKind' = resultKind
       ELSE IF resultKind = "None"
            THEN result' = result /\ resultKind' = "TypeError"
            ELSE result' = sanitize_sensitive_data(result) /\ resultKind' = "str"
    /\ passes' = passes + 1
    /\ UNCHANGED <<text, textKind, histVars, costVars, previewVars, runVars, cleanVars>>

SanNext == Sanitize

SanSpec == SanInit /\ [][SanNext]_vars

-----------------------------------------------------------------------------
(* calculate_estimated_cost as a state machine: a model string and two      *)
(* token counts are chosen and the cost is estimated once.                  *)

PriceKeys == {pricing[k].key : k \in 1..Len(pricing)}
\* the upper-case form of a model name
UpperStr(s) ==
    LET up(c) == IF c \in Lower
                 THEN Ch(UPPERS, CHOOSE k \in 1..Len(LOWERS) : Ch(LOWERS, k) = c)
                 ELSE c
        F[k \in 0..Len(s)] == IF k = 0 THEN "" ELSE F[k - 1] \o up(Ch(s, k))
    IN  F[Len(s)]
\* model strings that hold a key, and model strings that hold none
Models == PriceKeys
          \cup {UpperStr(k) : k \in PriceKeys}
          \cup {"openai/" \o k : k \in PriceKeys}
          \cup {k \o "-2024-08-06" : k \in PriceKeys}
          \cup {"", "unknown", "claude-3-opus", "gpt-5", "Gemini-2.0-flash"}
\* token counts; with these the exact sum never lies halfway between two
\* millionths, where the rounding of the binary fraction depends on the operands
TokenCounts == {IntVal(0), IntVal(8), IntVal(24), IntVal(1000), IntVal(1000000),
                NA, Missing}

CostInit ==
    /\ model \in Models
    /\ prompt_tokens \in TokenCounts
    /\ response_tokens \in TokenCounts
    /\ cost = 0
    /\ estimated = FALSE
    /\ SanIdle
    /\ RunIdle
    /\ CleanIdle
    /\ HistInit
    /\ PreviewIdle
    /\ enabled = TRUE

Estimate ==
    /\ ~estimated
    /\ cost' = calculate_estimated_cost(model, prompt_tokens, response_tokens)
    /\ estimated' = TRUE
    /\ UNCHANGED <<model, prompt_tokens, response_tokens, sanVars, histVars, runVars, cleanVars, previewVars>>

CostNext == Estimate

CostSpec == CostInit /\ [][CostNext]_vars

-----------------------------------------------------------------------------
(* The preview as a state machine: a response is chosen, sanitized, its     *)
(* preview is taken for the entry and copied into the summary of the index. *)

MaxPad == 12

\* the tails of the long responses
Tails == {"", " key", "password=hunter2"}
\* responses of about the length of the preview: a filler of 486 characters,
\* up to MaxPad dots and a tail, with the password across the place where
\* the preview ends
LongResponses ==
    {Repeat("lorem ", 81) \o Repeat(".", k) \o t : k \in 0..MaxPad, t \in Tails}
PreviewResponses == LongResponses \cup Responses \cup {""}

PreviewInit ==
    /\ response_text \in PreviewResponses
    /\ sanitized_response = ""
    /\ preview = ""
    /\ response_preview = ""
    /\ previewPc = "start"
    /\ SanIdle
    /\ HistInit
    /\ enabled = TRUE
    /\ CostIdle
    /\ RunIdle
    /\ CleanIdle

\* sanitized_response = sanitize_sensitive_data(response_text)
SanitizeResponse ==
    /\ previewPc = "start"
    /\ sanitized_response' = sanitize_sensitive_data(response_text)
    /\ previewPc' = "sanitized"
    /\ UNCHANGED <<response_text, preview, response_preview, sanVars, histVars, costVars,
                   runVars, cleanVars>>

\* "preview": sanitized_response[:500] + "..." if longer, else the response
TakePreview ==
    /\ previewPc = "sanitized"
    /\ preview' = Preview(sanitized_response)
    /\ previewPc' = "previewed"
    /\ UNCHANGED <<response_text, sanitized_response, response_preview, sanVars, histVars,
                   costVars, runVars, cleanVars>>

\* "response_preview": entry['content']['response']['preview']
CopyPreview ==
    /\ previewPc = "previewed"
    /\ response_preview' = preview
    /\ previewPc' = "summarized"
    /\ UNCHANGED <<response_text, sanitized_response, preview, sanVars, histVars, costVars,
                   runVars, cleanVars>>

PreviewNext ==
    \/ SanitizeResponse
    \/ TakePreview
    \/ CopyPreview

PreviewSpec == PreviewInit /\ [][PreviewNext]_vars

-----------------------------------------------------------------------------
(* CliCommand.run as a state machine: parse_input and execute do what was   *)
(* chosen for them, and run returns an exit code or lets the exception go.  *)

\* what parse_input does: it returns the arguments, argparse leaves with
\* SystemExit(0) at --help and SystemExit(2) at an error, or the user
\* interrupts
ParseOutcomes ==
    {NoOutcome, Outcome("SystemExit", IntVal(0)), Outcome("SystemExit", IntVal(2)),
     Outcome("KeyboardInterrupt", NoCode)}

\* what execute does: it returns an exit code or raises
ExecuteOutcomes ==
    {Outcome("none", IntVal(n)) : n \in {0, 1, 5}}
    \cup {Outcome("SystemExit", c) : c \in {IntVal(0), IntVal(2), NoCode, StrCode}}
    \cup {Outcome(c, NoCode) :
            c \in {"KeyboardInterrupt", "ValueError", "OSError", "GeneratorExit"}}

\* a faulty variant of the SystemExit clause: the code is not looked at
SystemExitCode_One(code) == IntVal(1)
\* e.code if isinstance(e.code, int) else 1
SystemExitCode(code) == IF code.kind = "int" THEN code ELSE IntVal(1)

RunInit ==
    /\ parsing \in ParseOutcomes
    /\ executing \in ExecuteOutcomes
    /\ runPc = "start"
    /\ raised = NoOutcome
    /\ exit_code = NoCode
    /\ SanIdle
    /\ HistInit
    /\ PreviewIdle
    /\ enabled = TRUE
    /\ CostIdle
    /\ CleanIdle

\* parsed = self.parse_input(args)
ParseInput ==
    /\ runPc = "start"
    /\ IF parsing.class = "none"
       THEN runPc' = "parsed" /\ UNCHANGED raised
       ELSE runPc' = "handling" /\ raised' = parsing
    /\ UNCHANGED <<parsing, executing, exit_code, sanVars, histVars, costVars, previewVars, cleanVars>>

\* return self.execute(parsed)
Execute ==
    /\ runPc = "parsed"
    /\ IF executing.class = "none"
       THEN runPc' = "returned" /\ exit_code' = executing.value /\ UNCHANGED raised
       ELSE runPc' = "handling" /\ raised' = executing /\ UNCHANGED exit_code
    /\ UNCHANGED <<parsing, executing, sanVars, histVars, costVars, previewVars, cleanVars>>

\* except KeyboardInterrupt: return 130
ExceptKeyboardInterrupt ==
    /\ runPc = "handling"
    /\ IsSubclass(raised.class, "KeyboardInterrupt")
    /\ runPc' = "returned"
    /\ exit_code' = IntVal(130)
    /\ UNCHANGED <<parsing, executing, raised, sanVars, histVars, costVars, previewVars, cleanVars>>

\* except SystemExit as e: return e.code if isinstance(e.code, int) else 1
ExceptSystemExit ==
    /\ runPc = "handling"
    /\ ~IsSubclass(raised.class, "KeyboardInterrupt")
    /\ IsSubclass(raised.class, "SystemExit")
    /\ runPc' = "returned"
    /\ exit_code' = SystemExitCode(raised.value)
    /\ UNCHANGED <<parsing, executing, raised, sanVars, histVars, costVars, previewVars, cleanVars>>

\* except Exception as e: return 1
ExceptException ==
    /\ runPc = "handling"
    /\ ~IsSubclass(raised.class, "KeyboardInterrupt")
    /\ ~IsSubclass(raised.class, "SystemExit")
    /\ IsSubclass(raised.class, "Exception")
    /\ runPc' = "returned"
    /\ exit_code' = IntVal(1)
    /\ UNCHANGED <<parsing, executing, raised, sanVars, histVars, costVars, previewVars, cleanVars>>

\* no except clause names the class: the exception goes on to the caller
Propagate ==
    /\ runPc = "handling"
    /\ ~IsSubclass(raised.class, "KeyboardInterrupt")
    /\ ~IsSubclass(raised.class, "SystemExit")
    /\ ~IsSubclass(raised.class, "Exception")
    /\ runPc' = "propagated"
    /\ UNCHANGED <<parsing, executing, raised, exit_code, sanVars, histVars, costVars, previewVars, cleanVars>>

RunNext ==
    \/ ParseInput
    \/ Execute
    \/ ExceptKeyboardInterrupt
    \/ ExceptSystemExit
    \/ ExceptException
    \/ Propagate

RunSpec == RunInit /\ [][RunNext]_vars

-----------------------------------------------------------------------------
(* cleanup_old_history as a state machine: a directory and a keep_last are  *)
(* chosen, the record files are listed newest first, and the files after    *)
(* the first keep_last are deleted one by one; the listing and a deletion   *)
(* may fail.                                                                *)

MaxMtime == 3
MaxKeep  == 2

\* names that history_*.json matches, and names that it does not match
RecordNames == {"history_20260101_000000_ebebd4b1.json",
                "history_20260101_000001_bf68c3d8.json",
                "history_.json"}
OtherNames  == {"index.json", "history_notes.txt", "old_history_1.json"}

\* fnmatch of the name against history_*.json
GlobMatches(name) ==
    /\ Len(name) >= Len("history_") + Len(".json")
    /\ SubSeq(name, 1, Len("history_")) = "history_"
    /\ SubSeq(name, Len(name) - Len(".json") + 1, Len(name)) = ".json"

\* history_dir.glob("history_*.json") in the directory d
Glob(d) == {f \in DOMAIN d : GlobMatches(f)}

\* sorted(..., key=st_mtime, reverse=True): the lists of the names, newest
\* first; names of one mtime come in the order in which glob gave them,
\* which is any order
SortedNewestFirst(d) ==
    {l \in [1..Cardinality(Glob(d)) -> Glob(d)] :
        /\ \A i, j \in DOMAIN l : i < j => l[i] # l[j] /\ d[l[i]] >= d[l[j]]}

\* a faulty variant of the slice: the whole list
OldFiles_All(list, k) == list
\* history_files[keep_last:]
OldFiles(list, k) == SubSeq(list, k + 1, Len(list))

\* the directory d without the file f
Unlinked(d, f) == [g \in DOMAIN d \ {f} |-> d[g]]

\* the class named by the except clause of cleanup_old_history
CleanupHandlerClass == "Exception"
\* what stat and unlink raise when they fail
StatErrors   == {"FileNotFoundError"}
UnlinkErrors == {"OSError"}

CleanInit ==
    /\ \E names \in SUBSET RecordNames :
          folder0 \in [names \cup OtherNames -> 1..MaxMtime]
    /\ \A f \in OtherNames : folder0[f] = MaxMtime
    /\ folder = folder0
    /\ keep \in 0..MaxKeep
    /\ history_files = <<>>
    /\ old_file = 0
    /\ cleanPc = "start"
    /\ unlinkFailed = FALSE
    /\ SanIdle
    /\ HistInit
    /\ PreviewIdle
    /\ enabled = TRUE
    /\ CostIdle
    /\ RunIdle

\* the sorted list, and the test of its length
ListFiles ==
    /\ cleanPc = "start"
    /\ history_files' \in SortedNewestFirst(folder)
    /\ old_file' = 1
    /\ cleanPc' = IF Cardinality(Glob(folder)) > keep THEN "loop" ELSE "done"
    /\ UNCHANGED <<folder0, folder, keep, unlinkFailed, sanVars, histVars, costVars, previewVars, runVars>>

\* p.stat() of a listed name raises: a link whose target is gone
ListFilesFails ==
    /\ cleanPc = "start"
    /\ Glob(folder) # {}
    /\ cleanPc' = IF \A e \in StatErrors : IsSubclass(e, CleanupHandlerClass)
                  THEN "stat_failed" ELSE "raised"
    /\ UNCHANGED <<folder0, folder, keep, history_files, old_file, unlinkFailed, sanVars,
                   histVars, costVars, previewVars, runVars>>

\* old_file.unlink() of the next file of history_files[keep_last:]
Unlink ==
    /\ cleanPc = "loop"
    /\ old_file <= Len(OldFiles(history_files, keep))
    /\ folder' = Unlinked(folder, OldFiles(history_files, keep)[old_file])
    /\ old_file' = old_file + 1
    /\ cleanPc' = IF old_file = Len(OldFiles(history_files, keep)) THEN "done" ELSE "loop"
    /\ UNCHANGED <<folder0, keep, history_files, unlinkFailed, sanVars, histVars, costVars, previewVars, runVars>>

\* old_file.unlink() raises: the loop ends there, except Exception: pass
UnlinkFails ==
    /\ cleanPc = "loop"
    /\ old_file <= Len(OldFiles(history_files, keep))
    /\ unlinkFailed' = TRUE
    /\ cleanPc' = IF \A e \in UnlinkErrors : IsSubclass(e, CleanupHandlerClass)
                  THEN "done" ELSE "raised"
    /\ UNCHANGED <<folder0, folder, keep, history_files, old_file, sanVars, histVars,
                   costVars, previewVars, runVars>>

CleanNext ==
    \/ ListFiles
    \/ ListFilesFails
    \/ Unlink
    \/ UnlinkFails

CleanSpec == CleanInit /\ [][CleanNext]_vars

-----------------------------------------------------------------------------
(* Claims about the redactor, checked under SanSpec.                        *)

\* C1: sanitize_sensitive_data is idempotent: a second pass over an already
\* sanitized text changes nothing.
C1_Idempotent == passes >= 2 => result = prev

\* C2: for every keyword in any letter case and every whitespace-free value,
\* K=v and K: v come out as the key name and the separator followed by a
\* placeholder, with nothing of v left.
C2_KeywordAssignmentRedacted ==
    passes = 1 =>
        \A K \in KeywordForms, sp \in AssignSeps, v \in AssignValues :
            text = K \o sp \o v =>
                \E ph \in Placeholders : result = K \o sp \o ph

\* C3: in a whitespace- or newline-separated sequence of secrets, every
\* payload that is removed when its secret is sanitized alone is also absent
\* from the sanitized sequence.
C3_NoSecretMasksAnother ==
    passes = 1 =>
        \A a \in Secrets, b \in Secrets, sp \in SecretSeps :
            text = a.txt \o sp \o b.txt =>
                \A f \in {a, b} : \A py \in f.pay :
                    ~Contains(sanitize_sensitive_data(f.txt), py) => ~Contains(result, py)

\* the key name k holds none of the ten keywords, in any letter case
NoKeyword(k) == \A K \in Keywords : ~ContainsCI(k, K)
\* v holds no sk- literal, Bearer or Basic value, webhook URL or PEM block
NoSecretShape(v) ==
    /\ ~Contains(v, "sk-")
    /\ ~Contains(v, "Bearer") /\ ~Contains(v, "Basic")
    /\ ~ContainsCI(v, "webhook") /\ ~ContainsCI(v, "hooks")
    /\ ~Contains(v, "-----BEGIN")

\* C4 as stated: KEY=value lines whose key names hold none of the ten
\* keywords and whose values hold no secret shape pass through unchanged.
C4_PassthroughAsStated ==
    passes = 1 =>
        \A ls \in ConfigTexts :
            (/\ text = ConfigText(ls)
             /\ \A k \in 1..Len(ls) : NoKeyword(ls[k].key) /\ NoSecretShape(ls[k].val))
            => result = text

\* C4 amended: KEY=value lines pass through unchanged when neither the key
\* names nor the values hold, in any letter case, one of the ten keywords or
\* the word KEY, and neither holds a secret shape.
NoKeywordNorKey(k) == NoKeyword(k) /\ ~ContainsCI(k, "KEY")
C4_Passthrough ==
    passes = 1 =>
        \A ls \in ConfigTexts :
            (/\ text = ConfigText(ls)
             /\ \A k \in 1..Len(ls) :
                    /\ NoKeywordNorKey(ls[k].key)
                    /\ NoKeywordNorKey(ls[k].val)
                    /\ NoSecretShape(ls[k].key)
                    /\ NoSecretShape(ls[k].val))
            => result = text
C4_Witness ==
    /\ passes = 1
    /\ text = "DEBUG=true\nAPI_URL=https://api.example.com"
    /\ result = text

\* C5: NAME_API_KEY=v and NAME_API_KEY: v keep the key name, hold [REDACTED]
\* and no longer hold v.
C5_KeyNamePreserved ==
    passes = 1 =>
        \A n \in ApiKeyNames, sp \in AssignSeps, v \in ApiKeyValues :
            text = n \o "_API_KEY" \o sp \o v =>
                /\ Contains(result, n \o "_API_KEY")
                /\ Contains(result, "[REDACTED]")
                /\ ~Contains(result, v)
C5_Witness ==
    /\ passes = 1
    /\ text = "STRIPE_API_KEY=sk_live_xyz789"
    /\ result = "STRIPE_API_KEY=[REDACTED]"

\* C6 as stated: every sk- literal of at least 20 characters is replaced by
\* [REDACTED_API_KEY] wherever it occurs.
C6_SkAlwaysApiKeyPlaceholder ==
    passes = 1 =>
        \A c \in SkContexts, k \in SkLiterals :
            text = c.pre \o k \o c.post =>
                result = c.pre \o "[REDACTED_API_KEY]" \o c.post

\* C6 amended: every sk- literal of at least 20 characters is replaced in
\* full: by [REDACTED_API_KEY] in prose and after Bearer, by the generic
\* [REDACTED] when it is the value of an api_key= or OPENROUTER_API_KEY=
\* assignment.
C6_SkLiteralReplaced ==
    passes = 1 =>
        \A c \in SkContexts, k \in SkLiterals :
            text = c.pre \o k \o c.post =>
                result = c.pre
                         \o (IF c.assigned THEN "[REDACTED]" ELSE "[REDACTED_API_KEY]")
                         \o c.post
C6_Witness ==
    /\ passes = 1
    /\ text = "Header: Bearer sk-proj-abcdefghijklmnopqrstuvwxyz"
    /\ result = "Header: Bearer [REDACTED_API_KEY]"

\* C7: Bearer <token> and Basic <token> keep the scheme keyword and have the
\* token, of any length, replaced by a placeholder.
C7_AuthTokenRedacted ==
    passes = 1 =>
        \A pf \in AuthPrefixes, sc \in AuthSchemes, t \in AuthTokens :
            text = pf \o sc \o " " \o t =>
                \E ph \in Placeholders : result = pf \o sc \o " " \o ph

\* C8: every http(s) URL holding webhook or hooks is replaced as a whole by
\* [REDACTED_WEBHOOK_URL], also as an assigned value and after Bearer.
C8_WebhookUrlReplaced ==
    passes = 1 =>
        \A pf \in UrlPrefixes, u \in WebhookUrls :
            text = pf \o u => result = pf \o "[REDACTED_WEBHOOK_URL]"

-----------------------------------------------------------------------------
(* Claims about the history recorder, checked under Spec.                   *)

\* C10: save_to_history is best-effort: whatever step fails, the call
\* returns normally and no exception reaches the caller.
C10_NeverRaises == \A p \in Procs : pc[p] # "raised"
C10_Witness ==
    \E p \in Procs, q \in Procs :
        /\ pc[p] = "returned" /\ exc[p] = "AttributeError"
        /\ pc[q] = "returned" /\ exc[q] = "OSError"

-----------------------------------------------------------------------------
(* Claims about calculate_estimated_cost, checked under CostSpec.           *)

\* C18: for every key of the price table and every model string that holds
\* it, letter case ignored, a million prompt tokens and no response tokens
\* cost that key's prompt price.
C18_PromptPriceOfHeldKey ==
    (estimated /\ prompt_tokens = IntVal(1000000) /\ response_tokens = IntVal(0)) =>
        \A k \in 1..Len(pricing) :
            ContainsCI(model, pricing[k].key) => cost = 1000 * pricing[k].prompt

\* the token counts are integers and some key is held by the lower-cased model
Priced == IsInt(prompt_tokens) /\ IsInt(response_tokens)
          /\ \E k \in 1..Len(pricing) : Contains(LowerStr(model), pricing[k].key)
\* the cost at the prices of the first key, in table order, that the
\* lower-cased model holds
FirstKeyCost ==
    \E k \in 1..Len(pricing) :
        /\ Contains(LowerStr(model), pricing[k].key)
        /\ \A j \in 1..(k - 1) : ~Contains(LowerStr(model), pricing[j].key)
        /\ cost = RoundHalfEven((prompt_tokens.n \div 1000) * pricing[k].prompt
                                  + (response_tokens.n \div 1000) * pricing[k].response,
                                (prompt_tokens.n % 1000) * pricing[k].prompt
                                  + (response_tokens.n % 1000) * pricing[k].response,
                                1000)

\* C19 as stated: the cost is 0.0 exactly when a token count is no integer or
\* no key is held; otherwise it is the rounded cost at the first key's prices.
C19_ZeroExactlyWhenUnpriced ==
    estimated => /\ (cost = 0 <=> ~Priced)
                 /\ (Priced => FirstKeyCost)

\* C19 amended: the cost is 0.0 when a token count is no integer or no key is
\* held; otherwise it is the rounded cost at the prices of the first key in
\* table order, which is 0.0 as well when that sum rounds to zero.
C19_FirstKeyCost ==
    estimated => /\ (~Priced => cost = 0)
                 /\ (Priced => FirstKeyCost)
C19_Witness ==
    /\ estimated
    /\ model = "openai/gpt-4o-mini"
    /\ prompt_tokens = IntVal(8) /\ response_tokens = IntVal(24)
    /\ cost = 260

-----------------------------------------------------------------------------
(* Claims about the index and the record files, checked under Spec.         *)

Reverse(sq) == [k \in 1..Len(sq) |-> sq[Len(sq) + 1 - k]]
\* the totals of ix are at most those of iy and every summary of ix is in iy
IndexGrows(ix, iy) ==
    /\ ix.total_interactions <= iy.total_interactions
    /\ ix.total_tokens_used <= iy.total_tokens_used
    /\ ix.total_estimated_cost <= iy.total_estimated_cost
    /\ \A k \in 1..Len(ix.interactions) :
           \E j \in 1..Len(iy.interactions) : iy.interactions[j] = ix.interactions[k]

\* C11: in every index written, total_interactions is the length of the
\* list; after N recordings made one after the other into an empty store the
\* index counts N and lists their N summaries, the most recent first.
C11_IndexCountsRecordings ==
    /\ index.state = "ok" => index.total_interactions = Len(index.interactions)
    /\ (~overlap /\ index.state = "ok") =>
           /\ index.total_interactions = Len(recorded)
           /\ index.interactions = Reverse(recorded)
C11_Witness ==
    /\ ~overlap
    /\ Len(recorded) = 2
    /\ recorded[1] # recorded[2]
    /\ index.total_interactions = 2
    /\ index.interactions = <<recorded[2], recorded[1]>>

\* C12 as stated: whatever the interleaving, every change of index.json
\* leaves an index whose totals are at least the former ones and that holds
\* every summary the former one held.
C12_IndexNeverShrinks ==
    [][(index.state = "ok" /\ index' # index) =>
           (index'.state = "ok" /\ IndexGrows(index, index'))]_vars

\* C12 amended: when no two recordings overlap, every change from one
\* well-formed index.json to the next leaves totals that are at least the
\* former ones and keeps every summary.
C12_SequentialIndexGrows ==
    [][(~overlap /\ index.state = "ok" /\ index'.state = "ok") =>
           IndexGrows(index, index')]_vars
C12_Witness ==
    /\ ~overlap
    /\ index.state = "ok"
    /\ index.total_interactions = 2
    /\ index.total_tokens_used = 300
    /\ index.total_estimated_cost = 1500

\* C13: the update writes the index it loaded with its own summary put
\* first, whatever index.json holds by then: of two calls that loaded the same
\* index, the later writer's index replaces the earlier writer's.
C13_LastWriterWins ==
    [][\A p \in Procs :
          (pc[p] = "index_write" /\ pc'[p] = "saved") =>
              /\ index'.total_interactions = idx[p].total_interactions + 1
              /\ index'.interactions = <<Summary(entry[p])>> \o idx[p].interactions]_vars
\* both calls returned without error, both record files exist, and the index
\* holds one summary only
C13_Witness ==
    /\ \A p \in Procs : /\ pc[p] = "returned" /\ exc[p] = "none"
                        /\ entry[p].session_id \in DOMAIN files
                        /\ files[entry[p].session_id] = entry[p]
    /\ entry["A"].session_id # entry["B"].session_id
    /\ index.total_interactions = 1
    /\ index.interactions = <<Summary(entry["A"])>>

\* C14: a recording that finds index.json not to be valid JSON returns with
\* the index reinitialized: it holds the new summary only, counted once.
C14_CorruptIndexReinitialized ==
    \A p \in Procs :
        (pc[p] = "returned" /\ exc[p] = "JSONDecodeError") =>
            index = WithSummary(EmptyIndex, entry[p])

\* C15: when the index update fails, the record files stay as they are and
\* index.json is left as it was.
C15_IndexFailureLeavesStore ==
    [][\A p \in Procs :
          (pc[p] \in {"index_read", "index_write"} /\ pc'[p] = "index_except") =>
              (files' = files /\ index' = index)]_vars

\* C16: when a recording has returned, at most keep_last record files are in
\* the history directory.
C16_RetentionPruned ==
    (\E p \in Procs : pc[p] = "returned") => Cardinality(DOMAIN files) <= keep_last

\* C17: a call that finds history.enabled false returns at once: it creates
\* no directory, writes no record file and leaves index.json unchanged.
C17_DisabledIsNoOp ==
    [][\A p \in Procs :
          (~enabled /\ pc[p] = "config" /\ pc'[p] # "config") =>
              /\ pc'[p] \in {"returned", "except"}
              /\ UNCHANGED <<dirExists, files, index>>]_vars
C17_Witness ==
    /\ ~enabled
    /\ index.state = "ok"
    /\ \E p \in Procs : pc[p] = "returned" /\ exc[p] = "none" /\ entry[p] = NoEntry

\* C20: in every record written total_tokens is the sum of the two counts
\* when both are integers and N/A otherwise; an index update with N/A leaves
\* total_tokens_used as loaded and counts one more interaction, the record
\* file being written.
C20_TotalTokens ==
    /\ [](\A sid \in DOMAIN files :
            LET e == files[sid]
            IN  e # NoEntry =>
                    e.total_tokens =
                        IF IsInt(e.prompt_tokens) /\ IsInt(e.response_tokens)
                        THEN IntVal(e.prompt_tokens.n + e.response_tokens.n)
                        ELSE NA)
    /\ [][\A p \in Procs :
            (pc[p] = "index_write" /\ pc'[p] = "saved" /\ entry[p].total_tokens = NA) =>
                /\ entry[p].session_id \in DOMAIN files
                /\ index'.total_tokens_used = idx[p].total_tokens_used
                /\ index'.total_interactions = idx[p].total_interactions + 1]_vars
C20_Witness ==
    /\ \E sid \in DOMAIN files : files[sid].total_tokens = IntVal(150)
    /\ \E sid \in DOMAIN files : files[sid].total_tokens = NA
    /\ index.state = "ok"
    /\ index.total_interactions = 2
    /\ index.total_tokens_used = 150

-----------------------------------------------------------------------------
(* Claims about what the recorder stores.                                   *)

\* the password of the prompts and the responses
SecretWord == "hunter2"

\* the positions of a call between the write of its record file and its end
AfterWrite == {"index_read", "index_write", "index_except", "saved"}

\* the texts that a record file may hold: for each call, the sanitized
\* prompt, the sanitized response and the preview cut from the latter
SanitizedTexts ==
    {[prompt   |-> Sanitized[a.full_prompt],
      response |-> Sanitized[a.response_text],
      preview  |-> IF Len(Sanitized[a.response_text]) > PreviewLen
                   THEN SubSeq(Sanitized[a.response_text], 1, PreviewLen) \o "..."
                   ELSE Sanitized[a.response_text]] : a \in CallArgs}
\* the password is in none of them
NoSecretStored ==
    \A c \in SanitizedTexts :
       /\ ~Contains(c.prompt, SecretWord)
       /\ ~Contains(c.response, SecretWord)
       /\ ~Contains(c.preview, SecretWord)

\* what the entry of a call with the arguments a is to hold: the sanitized
\* texts and the measures of the sanitized texts
SanitizedMeasures ==
    [a \in CallArgs |->
        LET sp == Sanitized[a.full_prompt]
            sr == Sanitized[a.response_text]
        IN  [prompt |-> sp, prompt_chars |-> Len(sp), prompt_words |-> WordCount(sp),
             response |-> sr, response_chars |-> Len(sr), response_words |-> WordCount(sr),
             response_lines |-> LineCount(sr)]]

\* C21: redaction precedes persistence: the entry that a call writes holds
\* the sanitized prompt and the sanitized response of the call, its lengths,
\* word counts and line count are those of the sanitized texts and its
\* preview is cut from the sanitized response; every record file holds such
\* texts and every summary of the index such a preview, and the password of
\* the texts passed in is in none of them
C21_RedactionPrecedesPersistence ==
    /\ NoSecretStored
    /\ \A p \in Procs :
          pc[p] \in AfterWrite \cup {"write"} =>
             LET e == entry[p]
             IN  /\ [prompt |-> e.prompt, prompt_chars |-> e.prompt_chars,
                     prompt_words |-> e.prompt_words, response |-> e.response,
                     response_chars |-> e.response_chars,
                     response_words |-> e.response_words,
                     response_lines |-> e.response_lines] = SanitizedMeasures[args[p]]
                 /\ [prompt |-> e.prompt, response |-> e.response,
                     preview |-> e.preview] \in SanitizedTexts
    /\ \A sid \in DOMAIN files :
          \/ files[sid] = NoEntry
          \/ [prompt |-> files[sid].prompt, response |-> files[sid].response,
              preview |-> files[sid].preview] \in SanitizedTexts
    /\ \A k \in 1..Len(index.interactions) :
          index.interactions[k].response_preview \in {c.preview : c \in SanitizedTexts}

C21_Witness ==
    \E sid \in DOMAIN files :
       /\ files[sid].prompt = "My password=[REDACTED] fails, why?"
       /\ files[sid].response = "Use password=[REDACTED] in .env\nthen retry"
       /\ index.state = "ok"
       /\ Len(index.interactions) >= 1
       /\ index.interactions[1].session_id = sid
       /\ index.interactions[1].response_preview = files[sid].preview

\* C22: the record file is written in the directory that the configuration
\* names: at every write of a record file the directory written to is
\* get_history_dir of the configured history.directory
C22_StoreInConfiguredDirectory ==
    [][\A p \in Procs :
          (pc[p] = "write" /\ pc'[p] = "index_read") =>
              history_dir = get_history_dir(directory)]_vars

\* C23: a recording whose record name is taken replaces the file without
\* any error: when the calls do not overlap, the record file of a call that
\* has written it holds the entry of that call, whatever was there, and the
\* call goes on to the index with no exception; two recordings of one
\* session id leave two summaries of that id in the index
C23_CollisionOverwrites ==
    /\ \A p \in Procs :
          (~overlap /\ pc[p] \in AfterWrite) =>
              /\ entry[p].session_id \in DOMAIN files
              /\ files[entry[p].session_id] = entry[p]
              /\ (pc[p] = "index_read" => exc[p] = "none")
    /\ (/\ ~overlap
        /\ index.state = "ok"
        /\ Len(recorded) = 2
        /\ recorded[1].session_id = recorded[2].session_id) =>
           /\ Len(index.interactions) = 2
           /\ index.interactions[1].session_id = index.interactions[2].session_id

C23_Witness ==
    /\ ~overlap
    /\ Len(recorded) = 2
    /\ recorded[1].session_id = recorded[2].session_id
    /\ recorded[1].tokens # recorded[2].tokens
    /\ index.state = "ok"
    /\ Len(index.interactions) = 2
    /\ index.interactions[1].session_id = index.interactions[2].session_id
    /\ DOMAIN files = {recorded[2].session_id}
    /\ files[recorded[2].session_id].total_tokens = recorded[2].tokens
    /\ \A p \in Procs : exc[p] = "none"

\* C24: the session id is the timestamp joined with the short hash of the
\* prompt as it was passed in, not of the sanitized prompt that is stored;
\* calls with the same prompt get the same hash, whatever their response,
\* their result and the time; a record file is named by its session id
C24_HashOfRawPrompt ==
    /\ [][\A p \in Procs :
            (pc[p] = "build" /\ pc'[p] = "write") =>
                entry'[p].session_id = <<now, md5_8[args[p].full_prompt]>>]_vars
    /\ [](\A p, q \in Procs :
            (/\ pc[p] \in AfterWrite \cup {"write"}
             /\ pc[q] \in AfterWrite \cup {"write"}
             /\ args[p].full_prompt = args[q].full_prompt) =>
                entry[p].session_id[2] = entry[q].session_id[2])
    /\ [](\A sid \in DOMAIN files :
            files[sid] # NoEntry => files[sid].session_id = sid)

C24_Witness ==
    /\ \E sid \in DOMAIN files :
          /\ sid[2] = "bf68c3d8"
          /\ files[sid].prompt = "My password=[REDACTED] fails, why?"
          /\ md5_8[files[sid].prompt] # sid[2]
          /\ files[sid].session_id = sid

\* C25 as stated: the preview is the sanitized response when it has at
\* most 500 characters and its first 500 characters otherwise, so that the
\* preview, in the entry and in the index, is never longer than 500
\* characters
C25_PreviewWithinLimit ==
    /\ previewPc \in {"previewed", "summarized"} =>
          /\ preview = IF Len(sanitized_response) <= PreviewLen THEN sanitized_response
                       ELSE SubSeq(sanitized_response, 1, PreviewLen)
          /\ Len(preview) <= PreviewLen
    /\ previewPc = "summarized" =>
          response_preview = preview /\ Len(response_preview) <= PreviewLen

\* C25: the preview is the sanitized response when it has at most 500
\* characters, and otherwise its first 500 characters followed by three
\* dots, so that the preview, in the entry and in the index, is never
\* longer than 503 characters
C25_PreviewWithEllipsis ==
    /\ previewPc \in {"previewed", "summarized"} =>
          /\ preview = IF Len(sanitized_response) <= PreviewLen THEN sanitized_response
                       ELSE SubSeq(sanitized_response, 1, PreviewLen) \o "..."
          /\ Len(preview) <= PreviewLen + Len("...")
    /\ previewPc = "summarized" =>
          response_preview = preview /\ Len(response_preview) <= PreviewLen + Len("...")

C25_Witness ==
    /\ previewPc = "summarized"
    /\ Contains(response_text, SecretWord)
    /\ Len(sanitized_response) > PreviewLen
    /\ Len(response_preview) = PreviewLen + Len("...")
    /\ ~Contains(response_preview, SecretWord)

\* C29: the record file is written before the index: at every point, every
\* summary of the index has a record file of its session id; a failure
\* between the two steps leaves a record file with no summary, never a
\* summary with no record file
C29_RecordBeforeIndex ==
    \A k \in 1..Len(index.interactions) :
       index.interactions[k].session_id \in DOMAIN files

C29_Witness ==
    /\ index.state = "ok"
    /\ Len(index.interactions) = 1
    /\ \E sid \in DOMAIN files :
          /\ files[sid] # NoEntry
          /\ sid # index.interactions[1].session_id
    /\ \A p \in Procs : pc[p] = "idle"

RECURSIVE SumTokens(_)
\* the sum of the tokens of the summaries that are integers
SumTokens(list) ==
    IF list = <<>> THEN 0
    ELSE (IF IsInt(Head(list).tokens) THEN Head(list).tokens.n ELSE 0) + SumTokens(Tail(list))
RECURSIVE SumCost(_)
\* the sum of the costs of the summaries
SumCost(list) == IF list = <<>> THEN 0 ELSE Head(list).cost + SumCost(Tail(list))

\* C30: the totals of the index are those of its summaries: the number of
\* interactions is the number of summaries, the tokens used are the sum of
\* the token counts that are integers, and the estimated cost is the sum of
\* the costs
C30_TotalsMatchSummaries ==
    index.state = "ok" =>
        /\ index.total_interactions = Len(index.interactions)
        /\ index.total_tokens_used = SumTokens(index.interactions)
        /\ index.total_estimated_cost = SumCost(index.interactions)

C30_Witness ==
    /\ ~overlap
    /\ index.state = "ok"
    /\ Len(index.interactions) = 2
    /\ index.interactions[1].tokens = NA
    /\ IsInt(index.interactions[2].tokens)
    /\ index.total_tokens_used = index.interactions[2].tokens.n
    /\ index.total_estimated_cost
         = index.interactions[1].cost + index.interactions[2].cost
    /\ index.interactions[1].cost > 0 /\ index.interactions[2].cost > 0

-----------------------------------------------------------------------------
(* Claims about the redactor's guard, CliCommand.run and the clean-up.      *)

\* C26: sanitize_sensitive_data returns an empty or null argument as it is:
\* the empty string gives the empty string and None gives None, however
\* often it is applied, and no call raises
C26_EmptyAndNoneUnchanged ==
    (textKind = "None" \/ text = "") =>
        /\ result = text
        /\ resultKind = textKind

C26_Witness ==
    /\ passes >= 1
    /\ textKind = "None"
    /\ resultKind = "None"
    /\ result = text

\* the outcome that decides what run does: that of parse_input when it
\* raises, else that of execute
Deciding == IF parsing.class # "none" THEN parsing ELSE executing

\* the exit code that run returns for the deciding outcome
ExitCodeAsStated ==
    runPc = "returned" =>
        /\ Deciding.class = "none" => exit_code = Deciding.value
        /\ Deciding.class = "KeyboardInterrupt" => exit_code = IntVal(130)
        /\ Deciding.class = "SystemExit" =>
              exit_code = IF Deciding.value.kind = "int" THEN Deciding.value ELSE IntVal(1)
        /\ Deciding.class \in {"ValueError", "OSError"} => exit_code = IntVal(1)

\* C27 as stated: run returns the exit codes of its table and never lets an
\* exception of execute go on to its caller
C27_NeverPropagates ==
    /\ ExitCodeAsStated
    /\ runPc # "propagated"

\* C27: run returns the exit codes of its table; it lets no KeyboardInterrupt,
\* SystemExit or Exception go on to its caller, while an exception of
\* another class, as GeneratorExit is, goes on to the caller of run
C27_ExitCodes ==
    /\ ExitCodeAsStated
    /\ runPc = "propagated" =>
          /\ ~IsSubclass(Deciding.class, "Exception")
          /\ Deciding.class \notin {"none", "KeyboardInterrupt", "SystemExit"}
    /\ runPc \in {"returned", "propagated"} =>
          (runPc = "returned" <=>
              \/ Deciding.class \in {"none", "KeyboardInterrupt", "SystemExit"}
              \/ IsSubclass(Deciding.class, "Exception"))

C27_Witness ==
    /\ parsing.class = "none"
    /\ executing = Outcome("SystemExit", IntVal(2))
    /\ runPc = "returned"
    /\ exit_code = IntVal(2)

\* the record files before the call, those that are left and those deleted
Records0 == Glob(folder0)
Kept     == Records0 \cap DOMAIN folder
Deleted  == Records0 \ DOMAIN folder
\* min(n, keep_last)
MinKept  == IF Cardinality(Records0) < keep THEN Cardinality(Records0) ELSE keep

\* in every outcome: nothing is raised, no file is added or changed, no
\* file that history_*.json does not match is deleted, and a deleted file
\* has keep_last others at least as new before it
CleanupSafe ==
    /\ cleanPc # "raised"
    /\ DOMAIN folder \subseteq DOMAIN folder0
    /\ \A f \in DOMAIN folder : folder[f] = folder0[f]
    /\ \A f \in DOMAIN folder0 : ~GlobMatches(f) => f \in DOMAIN folder
    /\ \A d \in Deleted :
          Cardinality({f \in Records0 \ {d} : folder0[f] >= folder0[d]}) >= keep
    /\ Cardinality(Kept) >= MinKept

\* exactly min(n, keep_last) record files are left, the newest ones
NewestKept ==
    /\ Cardinality(Kept) = MinKept
    /\ \A k \in Kept : \A d \in Deleted : folder0[k] >= folder0[d]

\* C28 as stated: when no deletion fails, cleanup_old_history leaves the
\* min(n, keep_last) newest record files; in every outcome it is safe
C28_KeepsNewestUnlessUnlinkFails ==
    /\ CleanupSafe
    /\ (cleanPc \in {"done", "stat_failed"} /\ ~unlinkFailed) => NewestKept

\* C28: when neither the listing nor a deletion fails, cleanup_old_history
\* leaves the min(n, keep_last) newest record files; when the listing fails
\* nothing is deleted; in every outcome it is safe
C28_KeepsNewest ==
    /\ CleanupSafe
    /\ (cleanPc = "done" /\ ~unlinkFailed) => NewestKept
    /\ cleanPc = "stat_failed" => folder = folder0

C28_Witness ==
    /\ cleanPc = "done"
    /\ ~unlinkFailed
    /\ Cardinality(Records0) = Cardinality(RecordNames)
    /\ keep = 1
    /\ Cardinality(Kept) = 1
    /\ Cardinality(Deleted) = 2
    /\ "index.json" \in DOMAIN folder

=============================================================================
